---- MODULE Spec2Model ----
(***************************************************************************)
(* Filament dryer firmware (src/src/main.cpp): the main control loop, the  *)
(* rotary-encoder decoder, the drying-stage state machine, the fail-safe   *)
(* handler and the two interrupt handlers, as one state machine.           *)
(*                                                                         *)
(* The main loop is a sequential program whose position is pc.  The two    *)
(* interrupt handlers are separate actions that may run between any two    *)
(* steps of the main loop; a step of the main loop touches the variables   *)
(* the handlers write (seconds, refresh_screen, event_on_encoder) at most  *)
(* once, or does so with interrupts masked (reset_timer, the clear of      *)
(* event_on_encoder).  The main loop reads the four-byte counter seconds   *)
(* byte by byte, low byte first, with interrupts enabled: the timer        *)
(* handler may run between two of the loads, and the value read is then    *)
(* made of bytes of the old and of the new count.  Locals are set back to  *)
(* their initial values when their function returns.                       *)
(*                                                                         *)
(* The timer handler adds one to seconds each time it runs, and the limits *)
(* seconds is compared with are hours away from the reset of the timer.    *)
(* A behaviour is followed for MaxTicks runs of the handler, and it starts *)
(* either after setup() or at the start of an iteration of loop() in a     *)
(* session that is under way, shortly before one of those limits.          *)
(***************************************************************************)
EXTENDS Integers, Sequences, FiniteSets, TLC

(***************************************************************************)
(* Bounds of the model.                                                    *)
(***************************************************************************)
\* The runs of the timer handler a behaviour is followed for.
MaxTicks == 2
\* Milliseconds that pass in one polling round (delay(1) repeated while the
\* encoder level stays the same); the round in which the pairing wait times
\* out ends at the timeout.
PollMs == 175
\* The longest a contact is followed while it stays closed, in ms since the
\* initiating sample.
MaxElapsed == 700
\* The most samples one call of read_action takes.
MaxSamples == 2
\* Sensor readings are multiples of 1/FracSteps of a degree.
FracSteps == 2

(***************************************************************************)
(* Program constants.                                                      *)
(***************************************************************************)
ENCODER_TIMEOUT == 350
MIN_IDX == 0
MAX_IDX == 4
NULL == -1
PREHEAT_LIMIT == 3600
UINT_MOD == 65536
\* DallasTemperature's DEVICE_DISCONNECTED_C, -127 degrees, as a reading.
DEVICE_DISCONNECTED_C == (-127) * FracSteps

HOURS(v) == v * 3600

NoAction == "NoAction"
ActionNext == "ActionNext"
ActionPrev == "ActionPrev"
ActionConfirm == "ActionConfirm"
EncoderAction == {NoAction, ActionNext, ActionPrev, ActionConfirm}

Idle == "Idle"
PreHeating == "PreHeating"
Working == "Working"
HeatingStage == {Idle, PreHeating, Working}

filaments ==
    (0 :> [name |-> "PLA",   temp |-> 45, time_sec |-> HOURS(6)]) @@
    (1 :> [name |-> "ABS",   temp |-> 60, time_sec |-> HOURS(4)]) @@
    (2 :> [name |-> "PETG",  temp |-> 65, time_sec |-> HOURS(4)]) @@
    (3 :> [name |-> "TPU",   temp |-> 50, time_sec |-> HOURS(8)]) @@
    (4 :> [name |-> "Nylon", temp |-> 70, time_sec |-> HOURS(12)])

(***************************************************************************)
(* Inputs.                                                                 *)
(***************************************************************************)
\* A reading of d whole degrees and h fractional steps (away from zero).
Deg(d, h) == IF d >= 0 THEN d * FracSteps + h ELSE d * FracSteps - h

\* What the sensor may report: the disconnect sentinel, readings below
\* zero, around the two plausibility limits, around a target and beyond
\* eight bits.
Readings ==
    { DEVICE_DISCONNECTED_C,
      Deg(-55, 0), Deg(-5, 0), -1, Deg(0, 1), Deg(1, 1), Deg(2, 1),
      Deg(45, 1), Deg(46, 0), Deg(119, 1), Deg(120, 0), Deg(257, 1),
      Deg(301, 1) }

\* What analogRead may report on the encoder pin: zero, each band, the
\* edges of the bands and values between them.
RawValues == {0, 300, 561, 610, 691, 705, 841, 850}

VARIABLES
    pc,                \* position of the main loop
    filament,          \* index of the chosen filament, or NULL
    refresh_screen,
    seconds,
    heater_is_on,
    event_on_encoder,
    heating_stage,
    cur_idx,           \* choose_filament's cur_idx
    value,             \* query_sensor's value
    temp,              \* query_sensor's temp, then loop's temp
    time_val,          \* update_screen's time_val
    beeps,             \* pulses emitted by the completion announcement
    reason,            \* panic's reason
    sos,               \* letter of the distress pattern being played
    caller,            \* who called wait_for_action
    rsite,             \* which call of read_action is running
    raw,               \* read_action's value
    samples,           \* samples taken by the running read_action
    level,             \* what read_action returned
    action,            \* wait_for_action's action
    elapsed,           \* millis() - time_begin
    time_diff,         \* wait_for_action's time_diff
    ret,               \* what wait_for_action returned to its caller
    ticks              \* runs of the timer handler so far

vars == <<pc, filament, refresh_screen, seconds, heater_is_on,
          event_on_encoder, heating_stage, cur_idx, value, temp, time_val,
          beeps, reason, sos, caller, rsite, raw, samples, level, action,
          elapsed, time_diff, ret, ticks>>

(***************************************************************************)
(* Pure functions.                                                         *)
(***************************************************************************)
\* Conversion of the float reading to an integer: the fraction is dropped,
\* towards zero.
Trunc(v) == IF v >= 0 THEN v \div FracSteps ELSE -((-v) \div FracSteps)

\* (unsigned int) value.  The conversion is defined when the truncated
\* value fits the type; otherwise the behaviour is undefined and a build
\* yields either the value modulo the width or the nearest end of the range.
ToUnsigned(v) ==
    IF Trunc(v) >= 0 /\ Trunc(v) < UINT_MOD
    THEN {Trunc(v)}
    ELSE {Trunc(v) % UINT_MOD, IF Trunc(v) < 0 THEN 0 ELSE UINT_MOD - 1}

\* ((unsigned int) value) & 0xFF, every outcome of it.
ToUint8(v) == {u % 256 : u \in ToUnsigned(v)}

\* Fault: the sentinel test is missing.
IsDisconnected_never(v) == FALSE
IsDisconnected(v) == v = DEVICE_DISCONNECTED_C
\* Fault: the lower plausibility limit is off by one.
IsFrozen_strict(t) == t < 1
IsFrozen(t) == t <= 1
IsBurned(t) == t >= 120

\* read_action's classification of one sample; "Resample" stands for the
\* sample matching nothing, on which the loop samples again.
Resample == "Resample"
read_action(v) ==
    IF v = 0 THEN NoAction
    ELSE IF v > 840 /\ v < 850 THEN ActionPrev
    ELSE IF v > 690 /\ v < 705 THEN ActionNext
    ELSE IF v > 560 /\ v < 610 THEN ActionConfirm
    ELSE Resample

\* The level that ends the pairing wait of a rotation begun with a.
Paired(a, l) ==
    \/ a = ActionPrev /\ l = ActionNext
    \/ a = ActionNext /\ l = ActionPrev

TimedOut(ms) == ms > ENCODER_TIMEOUT

\* millis() - time_begin after one more round of the pairing loop begun at
\* ms: the test after every delay(1) leaves the loop in the first
\* millisecond past ENCODER_TIMEOUT.
PairElapsed(ms) ==
    IF ms + PollMs > ENCODER_TIMEOUT THEN ENCODER_TIMEOUT + 1 ELSE ms + PollMs

\* time_diff as computed before the quiet period.
TimeDiff(a, ms) == IF a = ActionConfirm THEN 0 ELSE ms

\* Fault: the index stops at either end of the table instead of wrapping.
NextIdx_saturating(idx, a) ==
    IF a = ActionNext THEN (IF idx = MAX_IDX THEN idx ELSE idx + 1)
    ELSE IF a = ActionPrev THEN (IF idx = MIN_IDX THEN idx ELSE idx - 1)
    ELSE idx

\* The menu index after a resolved action.
NextIdx(idx, a) ==
    IF a = ActionNext THEN (IF idx = MAX_IDX THEN 0 ELSE idx + 1)
    ELSE IF a = ActionPrev THEN (IF idx = MIN_IDX THEN MAX_IDX ELSE idx - 1)
    ELSE idx

\* Fault: the target itself counts as above the target.
AboveTarget_or_equal(t, f) == t >= filaments[f].temp
AboveTarget(t, f) == t > filaments[f].temp

\* Fault: a session that starts above the target goes through PreHeating.
NextStage_preheat_first(st, t, f) ==
    IF st = Idle THEN PreHeating
    ELSE IF t > filaments[f].temp /\ st = PreHeating THEN Working
    ELSE st

\* Fault: Working falls back to PreHeating on a reading not above the
\* target.
NextStage_working_reverts(st, t, f) ==
    IF t > filaments[f].temp
    THEN (IF st = Idle \/ st = PreHeating THEN Working ELSE st)
    ELSE PreHeating

\* The stage after set_heater_state(t) with filament f chosen.
NextStage(st, t, f) ==
    IF AboveTarget(t, f)
    THEN (IF st = Idle \/ st = PreHeating THEN Working ELSE st)
    ELSE (IF st = Idle THEN PreHeating ELSE st)

\* The completion condition of loop().
Finished(st, s, f) == st = Working /\ s > filaments[f].time_sec

\* Fault: preheating has no ceiling.
PreheatExpired_never(s) == FALSE

\* Fault: the ceiling itself is not yet a timeout.
PreheatExpired_strict(s) == s > PREHEAT_LIMIT
PreheatExpired(s) == s >= PREHEAT_LIMIT

\* The count that ends the stage st of a session with filament f: the
\* drying time in Working (line 523), the preheat ceiling otherwise (line
\* 449).
StageLimit(st, f) ==
    IF st = Working THEN filaments[f].time_sec ELSE PREHEAT_LIMIT

\* The last count not above L whose low byte is 0xFF: the next increment
\* carries into the second byte, and a read torn by it yields a value above
\* L.
TearPoint(L) == L - ((L + 1) % 256)

\* The counts at which a session under way is taken up: those from which
\* MaxTicks runs of the handler take seconds one past the limit of its
\* stage, and one past the tear point of that limit.
StartCounts(st, f) ==
    {(StageLimit(st, f) + 1) - MaxTicks,
     (TearPoint(StageLimit(st, f)) + 1) - MaxTicks}

\* The value loaded from seconds when it goes from s to s + 1 between the
\* loads of byte k - 1 and byte k: the low k bytes of s, the rest of s + 1.
Torn(s, k) == (((s + 1) \div (256 ^ k)) * (256 ^ k)) + (s % (256 ^ k))

\* The outcomes of a read of seconds = s by the main loop: the value loaded
\* and the count after the read.  Either no interrupt falls between the
\* loads, or one does and the value is torn.
ReadSeconds(s) ==
    {[val |-> s, after |-> s]} \cup
    {[val |-> Torn(s, k), after |-> s + 1] :
        k \in {j \in 1 .. 3 : Torn(s, j) # s}}

\* The unsigned long (32 bits) that holds the integer n, as its two 16-bit
\* halves: n modulo 2^32 is hi * 65536 + lo.
ULong(n) == [hi |-> (n \div UINT_MOD) % UINT_MOD, lo |-> n % UINT_MOD]

\* filament->time_sec - seconds in unsigned long arithmetic.
Eta(f, s) == ULong(filaments[f].time_sec - s)

(***************************************************************************)
(* Initial states.                                                         *)
(***************************************************************************)
\* No function but loop() is running: the locals have their initial values
\* and no handler run has been followed yet.
AtLoopStart ==
    /\ pc = "loop"
    /\ value = 0
    /\ temp = 0
    /\ time_val = ULong(0)
    /\ beeps = 0
    /\ reason = ""
    /\ sos = 0
    /\ caller = ""
    /\ rsite = ""
    /\ raw = 0
    /\ samples = 0
    /\ level = NoAction
    /\ action = NoAction
    /\ elapsed = 0
    /\ time_diff = 0
    /\ ret = NoAction
    /\ ticks = 0

\* The state after setup(): the globals as initialised, the heater off.
PowerOn ==
    /\ AtLoopStart
    /\ filament = NULL
    /\ refresh_screen = FALSE
    /\ seconds = 0
    /\ heater_is_on = FALSE
    /\ event_on_encoder = FALSE
    /\ heating_stage = Idle
    /\ cur_idx = MIN_IDX

\* A session under way, at the start of an iteration of loop(): filament f
\* was confirmed in the menu, the stage is st, and seconds has counted up to
\* one of the StartCounts since the reset that began the stage, every
\* iteration so far having found the reading on the same side of the
\* target.  In PreHeating the heater is on (every reading was at or below
\* the target); in Working the last reading was above it.  The last refresh
\* requested has been done and no edge has come from the encoder since the
\* Confirm.
UnderWay ==
    /\ AtLoopStart
    /\ \E f \in MIN_IDX .. MAX_IDX, st \in {PreHeating, Working} :
          /\ filament = f
          /\ cur_idx = f
          /\ heating_stage = st
          /\ seconds \in StartCounts(st, f)
          /\ heater_is_on = (st = PreHeating)
    /\ refresh_screen = FALSE
    /\ event_on_encoder = FALSE

Init == PowerOn \/ UnderWay

(***************************************************************************)
(* Interrupt handlers.                                                     *)
(***************************************************************************)
\* ISR(TIMER1_COMPA_vect): one run of the handler.
TIMER1_COMPA ==
    /\ ticks < MaxTicks
    /\ ticks' = ticks + 1
    /\ seconds' = seconds + 1
    /\ refresh_screen' = TRUE
    /\ UNCHANGED <<pc, filament, heater_is_on, event_on_encoder,
                   heating_stage, cur_idx, value, temp, time_val, beeps,
                   reason, sos, caller, rsite, raw, samples, level, action,
                   elapsed, time_diff, ret>>

\* ISR(PCINT1_vect).
PCINT1 ==
    /\ event_on_encoder' = TRUE
    /\ UNCHANGED <<pc, filament, refresh_screen, seconds, heater_is_on,
                   heating_stage, cur_idx, value, temp, time_val, beeps,
                   reason, sos, caller, rsite, raw, samples, level, action,
                   elapsed, time_diff, ret, ticks>>

(***************************************************************************)
(* Helpers of the main loop.                                               *)
(***************************************************************************)
turn_on == heater_is_on' = TRUE
turn_off == heater_is_on' = FALSE

\* reset_timer(): both writes with interrupts masked.
reset_timer ==
    /\ seconds' = 0
    /\ refresh_screen' = FALSE

\* Fault: panic without turn_off().
panic_heater_kept(r) ==
    /\ UNCHANGED heater_is_on
    /\ reason' = r
    /\ sos' = 0
    /\ pc' = "panic"

\* panic(r): the heater is switched off, the reason shown, and the distress
\* pattern started; the function never returns.
panic(r) ==
    /\ turn_off
    /\ reason' = r
    /\ sos' = 0
    /\ pc' = "panic"

\* One letter of the distress pattern (S, O, S) inside panic's loop.
PanicSOS ==
    /\ pc = "panic"
    /\ sos' = (sos + 1) % 3
    /\ UNCHANGED <<pc, filament, refresh_screen, seconds, heater_is_on,
                   event_on_encoder, heating_stage, cur_idx, value, temp,
                   time_val, beeps, reason, caller, rsite, raw, samples,
                   level, action, elapsed, time_diff, ret, ticks>>

(***************************************************************************)
(* read_action(): sample until a sample is zero or lies in a band.         *)
(***************************************************************************)
\* One round of read_action's loop: value = analogRead(ENCODER_PIN) and the
\* four tests on it; the call returns the class of the sample, or samples
\* again.  A contact is followed while closed for at most MaxElapsed ms, and
\* a call samples at most MaxSamples times.
ReadAction ==
    /\ pc = "read_action"
    /\ \E v \in RawValues :
          /\ samples + 1 < MaxSamples \/ read_action(v) # Resample
          /\ (rsite = "release" /\ elapsed + PollMs > MaxElapsed) => v = 0
          /\ raw' = v
          /\ samples' = samples + 1
          /\ IF read_action(v) = Resample
             THEN UNCHANGED <<pc, level>>
             ELSE /\ level' = read_action(v)
                  /\ pc' = rsite
    /\ UNCHANGED <<filament, refresh_screen, seconds, heater_is_on,
                   event_on_encoder, heating_stage, cur_idx, value, temp,
                   time_val, beeps, reason, sos, caller, rsite, action,
                   elapsed, time_diff, ret, ticks>>

(***************************************************************************)
(* wait_for_action()                                                       *)
(***************************************************************************)
\* while (!event_on_encoder) delay(1); then the first read_action().
WfaWait ==
    /\ pc = "wfa_wait"
    /\ event_on_encoder
    /\ pc' = "read_action"
    /\ rsite' = "first"
    /\ UNCHANGED <<filament, refresh_screen, seconds, heater_is_on,
                   event_on_encoder, heating_stage, cur_idx, value, temp,
                   time_val, beeps, reason, sos, caller, raw, samples, level,
                   action, elapsed, time_diff, ret, ticks>>

\* Fault: the return on a first sample of NoAction clears the flag too.
WfaFirst_clears ==
    /\ pc = "first"
    /\ raw' = 0
    /\ samples' = 0
    /\ IF level = NoAction
       THEN /\ ret' = NoAction
            /\ pc' = caller
            /\ rsite' = ""
            /\ event_on_encoder' = FALSE
            /\ UNCHANGED <<action, elapsed>>
       ELSE /\ action' = level
            /\ elapsed' = 0
            /\ pc' = "read_action"
            /\ rsite' = IF level = ActionConfirm THEN "release" ELSE "pair"
            /\ UNCHANGED <<ret, event_on_encoder>>
    /\ level' = NoAction
    /\ UNCHANGED <<filament, refresh_screen, seconds, heater_is_on,
                   heating_stage, cur_idx, value, temp, time_val, beeps,
                   reason, sos, caller, time_diff, ticks>>

\* The first sample: NoAction returns at once, the flag left as it is;
\* otherwise time_begin = millis() and the pairing or the release wait starts.
WfaFirst ==
    /\ pc = "first"
    /\ raw' = 0
    /\ samples' = 0
    /\ IF level = NoAction
       THEN /\ ret' = NoAction
            /\ pc' = caller
            /\ rsite' = ""
            /\ UNCHANGED <<action, elapsed>>
       ELSE /\ action' = level
            /\ elapsed' = 0
            /\ pc' = "read_action"
            /\ rsite' = IF level = ActionConfirm THEN "release" ELSE "pair"
            /\ UNCHANGED ret
    /\ level' = NoAction
    /\ UNCHANGED <<filament, refresh_screen, seconds, heater_is_on,
                   event_on_encoder, heating_stage, cur_idx, value, temp,
                   time_val, beeps, reason, sos, caller, time_diff, ticks>>

\* Fault: a pairing wait that times out gives up the initiating action.
WfaPair_timeout_none ==
    /\ pc = "pair"
    /\ raw' = 0
    /\ samples' = 0
    /\ level' = NoAction
    /\ IF Paired(action, level)
       THEN /\ rsite' = "release"
            /\ UNCHANGED <<elapsed, action>>
       ELSE /\ elapsed' = PairElapsed(elapsed)
            /\ rsite' = IF TimedOut(elapsed') THEN "release" ELSE "pair"
            /\ action' = IF TimedOut(elapsed') THEN NoAction ELSE action
    /\ pc' = "read_action"
    /\ UNCHANGED <<filament, refresh_screen, seconds, heater_is_on,
                   event_on_encoder, heating_stage, cur_idx, value, temp,
                   time_val, beeps, reason, sos, caller, time_diff, ret, ticks>>

\* One round of the pairing loop of a rotation: the paired level ends it,
\* and so does the timeout after the delay.
WfaPair ==
    /\ pc = "pair"
    /\ raw' = 0
    /\ samples' = 0
    /\ level' = NoAction
    /\ IF Paired(action, level)
       THEN /\ rsite' = "release"
            /\ UNCHANGED elapsed
       ELSE /\ elapsed' = PairElapsed(elapsed)
            /\ rsite' = IF TimedOut(elapsed') THEN "release" ELSE "pair"
    /\ pc' = "read_action"
    /\ UNCHANGED <<filament, refresh_screen, seconds, heater_is_on,
                   event_on_encoder, heating_stage, cur_idx, value, temp,
                   time_val, beeps, reason, sos, caller, action, time_diff,
                   ret, ticks>>

\* One round of the release loop; once the level is NoAction time_diff is
\* computed and the quiet period delay(time_diff * 2 + ENCODER_JITTER) starts.
WfaRelease ==
    /\ pc = "release"
    /\ raw' = 0
    /\ samples' = 0
    /\ level' = NoAction
    /\ IF level # NoAction
       THEN /\ elapsed' = elapsed + PollMs
            /\ pc' = "read_action"
            /\ UNCHANGED time_diff
       ELSE /\ time_diff' = TimeDiff(action, elapsed)
            /\ pc' = "wfa_quiet"
            /\ UNCHANGED elapsed
    /\ UNCHANGED <<filament, refresh_screen, seconds, heater_is_on,
                   event_on_encoder, heating_stage, cur_idx, value, temp,
                   time_val, beeps, reason, sos, caller, rsite, action, ret,
                   ticks>>

\* The quiet period is over: the flag is cleared with interrupts masked and
\* the initiating action returned.
WfaClear ==
    /\ pc = "wfa_quiet"
    /\ event_on_encoder' = FALSE
    /\ ret' = action
    /\ pc' = caller
    /\ rsite' = ""
    /\ action' = NoAction
    /\ elapsed' = 0
    /\ time_diff' = 0
    /\ UNCHANGED <<filament, refresh_screen, seconds, heater_is_on,
                   heating_stage, cur_idx, value, temp, time_val, beeps,
                   reason, sos, caller, raw, samples, level, ticks>>

(***************************************************************************)
(* choose_filament()                                                       *)
(***************************************************************************)
\* loop(): no filament chosen: turn_off(), then choose_filament() up to its
\* first wait_for_action().
LoopChoose ==
    /\ pc = "loop"
    /\ filament = NULL
    /\ turn_off
    /\ cur_idx' = MIN_IDX
    /\ filament' = MIN_IDX
    /\ caller' = "menu"
    /\ pc' = "wfa_wait"
    /\ UNCHANGED <<refresh_screen, seconds, event_on_encoder, heating_stage,
                   value, temp, time_val, beeps, reason, sos, rsite, raw,
                   samples, level, action, elapsed, time_diff, ret, ticks>>

\* The menu on a resolved action other than Confirm.
MenuMove ==
    /\ pc = "menu"
    /\ ret # ActionConfirm
    /\ cur_idx' = NextIdx(cur_idx, ret)
    /\ filament' = cur_idx'
    /\ ret' = NoAction
    /\ pc' = "wfa_wait"
    /\ UNCHANGED <<refresh_screen, seconds, heater_is_on, event_on_encoder,
                   heating_stage, value, temp, time_val, beeps, reason, sos,
                   caller, rsite, raw, samples, level, action, elapsed,
                   time_diff, ticks>>

\* The menu on Confirm: choose_filament() returns, then clear_screen() and
\* reset_timer() in loop().
MenuConfirm ==
    /\ pc = "menu"
    /\ ret = ActionConfirm
    /\ reset_timer
    /\ ret' = NoAction
    /\ caller' = ""
    /\ pc' = "loop_516"
    /\ UNCHANGED <<filament, heater_is_on, event_on_encoder, heating_stage,
                   cur_idx, value, temp, time_val, beeps, reason, sos, rsite,
                   raw, samples, level, action, elapsed, time_diff, ticks>>

\* heating_stage = Idle; refresh_screen = true;
Loop516 ==
    /\ pc = "loop_516"
    /\ heating_stage' = Idle
    /\ refresh_screen' = TRUE
    /\ pc' = "loop_523"
    /\ UNCHANGED <<filament, seconds, heater_is_on, event_on_encoder, cur_idx,
                   value, temp, time_val, beeps, reason, sos, caller, rsite,
                   raw, samples, level, action, elapsed, time_diff, ret, ticks>>

(***************************************************************************)
(* loop(): completion                                                      *)
(***************************************************************************)
\* Fault: the completion without turn_off().
Loop523_heater_kept ==
    /\ \/ pc = "loop" /\ filament # NULL
       \/ pc = "loop_523"
    /\ IF heating_stage = Working
       THEN \E rd \in ReadSeconds(seconds) :
              /\ rd.after # seconds => ticks < MaxTicks
              /\ ticks' = ticks + (rd.after - seconds)
              /\ seconds' = rd.after
              /\ refresh_screen' = (refresh_screen \/ rd.after # seconds)
              /\ IF Finished(heating_stage, rd.val, filament)
                 THEN /\ beeps' = 0
                      /\ pc' = "finish_beep"
                 ELSE /\ pc' = "query"
                      /\ UNCHANGED beeps
       ELSE /\ pc' = "query"
            /\ UNCHANGED <<seconds, refresh_screen, beeps, ticks>>
    /\ UNCHANGED <<filament, heater_is_on, event_on_encoder, heating_stage,
                   cur_idx, value, temp, time_val, reason, sos, caller, rsite,
                   raw, samples, level, action, elapsed, time_diff, ret>>

\* The completion test, at the start of an iteration with a filament chosen
\* or right after the menu: seconds is read only in stage Working.  When the
\* test holds: turn_off() and the announcement.
Loop523 ==
    /\ \/ pc = "loop" /\ filament # NULL
       \/ pc = "loop_523"
    /\ IF heating_stage = Working
       THEN \E rd \in ReadSeconds(seconds) :
              /\ rd.after # seconds => ticks < MaxTicks
              /\ ticks' = ticks + (rd.after - seconds)
              /\ seconds' = rd.after
              /\ refresh_screen' = (refresh_screen \/ rd.after # seconds)
              /\ IF Finished(heating_stage, rd.val, filament)
                 THEN /\ turn_off
                      /\ beeps' = 0
                      /\ pc' = "finish_beep"
                 ELSE /\ pc' = "query"
                      /\ UNCHANGED <<heater_is_on, beeps>>
       ELSE /\ pc' = "query"
            /\ UNCHANGED <<seconds, refresh_screen, heater_is_on, beeps,
                           ticks>>
    /\ UNCHANGED <<filament, event_on_encoder, heating_stage, cur_idx, value,
                   temp, time_val, reason, sos, caller, rsite, raw, samples,
                   level, action, elapsed, time_diff, ret>>

\* beep(2000), three times; after the third the wait for Confirm starts.
FinishBeep ==
    /\ pc = "finish_beep"
    /\ beeps' = beeps + 1
    /\ IF beeps' = 3
       THEN /\ pc' = "wfa_wait"
            /\ caller' = "finish"
       ELSE UNCHANGED <<pc, caller>>
    /\ UNCHANGED <<filament, refresh_screen, seconds, heater_is_on,
                   event_on_encoder, heating_stage, cur_idx, value, temp,
                   time_val, reason, sos, rsite, raw, samples, level, action,
                   elapsed, time_diff, ret, ticks>>

\* Fault: any resolved action ends the wait ("Press any key...").
FinishIgnore_any_key ==
    /\ pc = "finish"
    /\ ret # ActionConfirm
    /\ filament' = NULL
    /\ ret' = NoAction
    /\ caller' = ""
    /\ beeps' = 0
    /\ pc' = "loop"
    /\ UNCHANGED <<refresh_screen, seconds, heater_is_on, event_on_encoder,
                   heating_stage, cur_idx, value, temp, time_val, reason, sos,
                   rsite, raw, samples, level, action, elapsed, time_diff,
                   ticks>>

\* while (wait_for_action() != ActionConfirm): any other action waits again.
FinishIgnore ==
    /\ pc = "finish"
    /\ ret # ActionConfirm
    /\ ret' = NoAction
    /\ pc' = "wfa_wait"
    /\ UNCHANGED <<filament, refresh_screen, seconds, heater_is_on,
                   event_on_encoder, heating_stage, cur_idx, value, temp,
                   time_val, beeps, reason, sos, caller, rsite, raw, samples,
                   level, action, elapsed, time_diff, ticks>>

\* Fault: Confirm clears the filament and goes on with the iteration
\* instead of returning.
FinishConfirm_no_return ==
    /\ pc = "finish"
    /\ ret = ActionConfirm
    /\ filament' = NULL
    /\ ret' = NoAction
    /\ caller' = ""
    /\ beeps' = 0
    /\ pc' = "query"
    /\ UNCHANGED <<refresh_screen, seconds, heater_is_on, event_on_encoder,
                   heating_stage, cur_idx, value, temp, time_val, reason, sos,
                   rsite, raw, samples, level, action, elapsed, time_diff,
                   ticks>>

\* Confirm: filament = NULL; return;
FinishConfirm ==
    /\ pc = "finish"
    /\ ret = ActionConfirm
    /\ filament' = NULL
    /\ ret' = NoAction
    /\ caller' = ""
    /\ beeps' = 0
    /\ pc' = "loop"
    /\ UNCHANGED <<refresh_screen, seconds, heater_is_on, event_on_encoder,
                   heating_stage, cur_idx, value, temp, time_val, reason, sos,
                   rsite, raw, samples, level, action, elapsed, time_diff,
                   ticks>>

(***************************************************************************)
(* loop(): one control iteration                                           *)
(***************************************************************************)
\* temp = query_sensor(): the reading, the sentinel test, the conversion to
\* eight bits and the two plausibility tests.
QuerySensor ==
    /\ pc = "query"
    /\ \E v \in Readings :
          /\ value' = v
          /\ IF IsDisconnected(v)
             THEN /\ panic("Temp NaN.")
                  /\ UNCHANGED temp
             ELSE \E t \in ToUint8(v) :
                    /\ temp' = t
                    /\ IF IsFrozen(t) THEN panic("Frozen.")
                       ELSE IF IsBurned(t) THEN panic("Burned.")
                       ELSE /\ pc' = "set_heater"
                            /\ UNCHANGED <<heater_is_on, reason, sos>>
    /\ UNCHANGED <<filament, refresh_screen, seconds, event_on_encoder,
                   heating_stage, cur_idx, time_val, beeps, caller, rsite,
                   raw, samples, level, action, elapsed, time_diff, ret, ticks>>

\* set_heater_state(temp) up to the reset of the timer.
SetHeaterState ==
    /\ pc = "set_heater"
    /\ value' = 0
    /\ IF filament = NULL
       THEN /\ panic("Heater state.")
            /\ UNCHANGED heating_stage
       ELSE /\ IF AboveTarget(temp, filament) THEN turn_off ELSE turn_on
            /\ heating_stage' = NextStage(heating_stage, temp, filament)
            /\ pc' = IF heating_stage' # heating_stage
                     THEN "sh_reset" ELSE "loop_549"
            /\ UNCHANGED <<reason, sos>>
    /\ UNCHANGED <<filament, refresh_screen, seconds, event_on_encoder,
                   cur_idx, temp, time_val, beeps, caller, rsite, raw,
                   samples, level, action, elapsed, time_diff, ret, ticks>>

\* The reset_timer() that follows a change of stage in set_heater_state.
SetHeaterReset ==
    /\ pc = "sh_reset"
    /\ reset_timer
    /\ pc' = "loop_549"
    /\ UNCHANGED <<filament, heater_is_on, event_on_encoder, heating_stage,
                   cur_idx, value, temp, time_val, beeps, reason, sos, caller,
                   rsite, raw, samples, level, action, elapsed, time_diff,
                   ret, ticks>>

\* if (refresh_screen): without a refresh due the iteration ends.
Loop549 ==
    /\ pc = "loop_549"
    /\ IF refresh_screen
       THEN /\ pc' = "loop_550"
            /\ UNCHANGED temp
       ELSE /\ pc' = "loop"
            /\ temp' = 0
    /\ UNCHANGED <<filament, refresh_screen, seconds, heater_is_on,
                   event_on_encoder, heating_stage, cur_idx, value, time_val,
                   beeps, reason, sos, caller, rsite, raw, samples, level,
                   action, elapsed, time_diff, ret, ticks>>

\* refresh_screen = false;
Loop550 ==
    /\ pc = "loop_550"
    /\ refresh_screen' = FALSE
    /\ pc' = "update"
    /\ UNCHANGED <<filament, seconds, heater_is_on, event_on_encoder,
                   heating_stage, cur_idx, value, temp, time_val, beeps,
                   reason, sos, caller, rsite, raw, samples, level, action,
                   elapsed, time_diff, ret, ticks>>

\* update_screen(temp) up to time_val, with its one read of seconds: the
\* remaining time in Working, otherwise the time spent preheating, with the
\* one-hour test.
UpdateScreen ==
    /\ pc = "update"
    /\ \E rd \in ReadSeconds(seconds) :
          /\ rd.after # seconds => ticks < MaxTicks
          /\ ticks' = ticks + (rd.after - seconds)
          /\ seconds' = rd.after
          /\ refresh_screen' = (refresh_screen \/ rd.after # seconds)
          /\ IF heating_stage = Working
             THEN /\ time_val' = Eta(filament, rd.val)
                  /\ pc' = "update_print"
                  /\ UNCHANGED <<heater_is_on, reason, sos>>
             ELSE /\ time_val' = ULong(rd.val)
                  /\ IF PreheatExpired(rd.val)
                     THEN panic("Preheating.")
                     ELSE /\ pc' = "update_print"
                          /\ UNCHANGED <<heater_is_on, reason, sos>>
    /\ UNCHANGED <<filament, event_on_encoder, heating_stage, cur_idx, value,
                   temp, beeps, caller, rsite, raw, samples, level, action,
                   elapsed, time_diff, ret>>

\* The minutes and seconds of time_val are printed and the iteration ends.
UpdatePrint ==
    /\ pc = "update_print"
    /\ time_val' = ULong(0)
    /\ temp' = 0
    /\ pc' = "loop"
    /\ UNCHANGED <<filament, refresh_screen, seconds, heater_is_on,
                   event_on_encoder, heating_stage, cur_idx, value, beeps,
                   reason, sos, caller, rsite, raw, samples, level, action,
                   elapsed, time_diff, ret, ticks>>

Next ==
    \/ TIMER1_COMPA
    \/ PCINT1
    \/ PanicSOS
    \/ ReadAction
    \/ WfaWait
    \/ WfaFirst
    \/ WfaPair
    \/ WfaRelease
    \/ WfaClear
    \/ LoopChoose
    \/ MenuMove
    \/ MenuConfirm
    \/ Loop516
    \/ Loop523
    \/ FinishBeep
    \/ FinishIgnore
    \/ FinishConfirm
    \/ QuerySensor
    \/ SetHeaterState
    \/ SetHeaterReset
    \/ Loop549
    \/ Loop550
    \/ UpdateScreen
    \/ UpdatePrint

Spec == Init /\ [][Next]_vars

\* The steps of the main loop: everything but the interrupt handlers.
MainLoop ==
    \/ PanicSOS
    \/ ReadAction
    \/ WfaWait
    \/ WfaFirst
    \/ WfaPair
    \/ WfaRelease
    \/ WfaClear
    \/ LoopChoose
    \/ MenuMove
    \/ MenuConfirm
    \/ Loop516
    \/ Loop523
    \/ FinishBeep
    \/ FinishIgnore
    \/ FinishConfirm
    \/ QuerySensor
    \/ SetHeaterState
    \/ SetHeaterReset
    \/ Loop549
    \/ Loop550
    \/ UpdateScreen
    \/ UpdatePrint

\* The program on a processor that keeps executing the main loop (loop() is
\* called again whenever it returns and every call it makes returns) and
\* with timer 1 running since setup(), so that the handler runs whenever
\* it is still followed.  Nothing is assumed about the encoder: PCINT1 may
\* never fire.
FairSpec ==
    /\ Init
    /\ [][Next]_vars
    /\ WF_vars(MainLoop)
    /\ WF_vars(TIMER1_COMPA)

TypeOK ==
    /\ filament \in {NULL} \cup (MIN_IDX .. MAX_IDX)
    /\ heating_stage \in HeatingStage
    /\ seconds \in Nat
    /\ ticks \in 0 .. MaxTicks
    /\ temp \in 0 .. 255
    /\ ret \in EncoderAction
    /\ action \in EncoderAction
    /\ level \in EncoderAction

(***************************************************************************)
(* Properties.                                                             *)
(***************************************************************************)
\* Positions of the main loop inside wait_for_action and read_action.
InWait == pc \in {"wfa_wait", "read_action", "first", "pair", "release",
                  "wfa_quiet"}

\* C1: panic is absorbing and safe.  Every step that ends in panic, the
\* entering step included, leaves the heater off; no step leaves panic;
\* and once in panic the stage, the chosen filament and the reason never
\* change (only the timer still counts).
C1_PanicAbsorbing ==
    [][ /\ pc' = "panic" => ~heater_is_on'
        /\ pc = "panic" =>
              /\ pc' = "panic"
              /\ heating_stage' = heating_stage
              /\ filament' = filament
              /\ reason' = reason
              /\ seconds' >= seconds ]_vars

\* C1 witness: panic entered from PreHeating (the heater was on), the
\* distress pattern under way and the timer still counting.
C1_Witness ==
    /\ pc = "panic"
    /\ reason = "Burned."
    /\ heating_stage = PreHeating
    /\ seconds >= PREHEAT_LIMIT
    /\ sos = 2

\* C2: a reading equal to the disconnect sentinel puts the program in panic
\* in the step that takes the reading: with the sentinel as the last
\* reading the program is in panic with reason "Temp NaN.", the heater is
\* off, and set_heater_state never got the reading (the stage is the one
\* from before, loop's temp was not assigned).
C2_DisconnectPanics ==
    value = DEVICE_DISCONNECTED_C =>
        /\ pc = "panic"
        /\ reason = "Temp NaN."
        /\ ~heater_is_on
        /\ temp = 0
        /\ time_val = [hi |-> 0, lo |-> 0]

\* C2 witness: the sentinel read while preheating, hence with the heater on.
C2_Witness ==
    /\ value = DEVICE_DISCONNECTED_C
    /\ pc = "panic"
    /\ heating_stage = PreHeating
    /\ seconds > 0

\* The reading v truncated to eight bits, where the conversion is defined.
Truncated8(v) == (IF v >= 0 THEN v \div FracSteps ELSE 0) % 256

\* C3: after query_sensor took a reading other than the sentinel, the
\* program is in panic exactly when the eight-bit value is <= 1 ("Frozen.")
\* or >= 120 ("Burned."); otherwise the value lies in 2..119 and is what
\* set_heater_state receives.  The eight-bit value is the reading truncated
\* modulo 256 whenever the conversion is defined (a reading above -1).
C3_RangeCheck ==
    /\ pc = "set_heater" =>
          /\ value # DEVICE_DISCONNECTED_C
          /\ temp \in 2 .. 119
    /\ (pc = "panic" /\ reason = "Frozen.") =>
          /\ value # DEVICE_DISCONNECTED_C
          /\ temp <= 1
    /\ (pc = "panic" /\ reason = "Burned.") =>
          /\ value # DEVICE_DISCONNECTED_C
          /\ temp >= 120
    /\ (pc = "panic" /\ reason = "Temp NaN.") =>
          value = DEVICE_DISCONNECTED_C
    /\ ( /\ pc = "set_heater" \/ (pc = "panic" /\ reason \in {"Frozen.", "Burned."})
         /\ value > -FracSteps )
       => temp = Truncated8(value)

\* C3 witness: a reading beyond eight bits (301.5 degrees) that truncates
\* to 45 and is handed to set_heater_state.
C3_Witness ==
    /\ pc = "set_heater"
    /\ value >= 256 * FracSteps
    /\ temp = Truncated8(value)
    /\ temp \in 2 .. 119

\* C4: preheating does not go on past the ceiling.  While the stage is
\* PreHeating, once seconds has reached 3600 a display refresh is due or
\* under way, wherever in the iteration the timer handler made the count
\* reach the ceiling; the refresh that finds the stage still PreHeating at
\* or past the ceiling ends in panic "Preheating." with the heater off; and
\* with the main loop running, a stage PreHeating at or past the ceiling
\* leads to panic or to Working (a reading above the target taken before
\* the refresh).
C4_PreheatTimeout ==
    /\ [](( /\ heating_stage = PreHeating
            /\ seconds >= PREHEAT_LIMIT
            /\ pc # "panic" )
          => (refresh_screen \/ pc = "update"))
    /\ [][ ( /\ pc = "update"
             /\ pc' # "update"
             /\ heating_stage = PreHeating
             /\ seconds >= PREHEAT_LIMIT )
           => ( /\ pc' = "panic"
                /\ reason' = "Preheating."
                /\ ~heater_is_on' ) ]_vars
    /\ (heating_stage = PreHeating /\ seconds >= PREHEAT_LIMIT)
          ~> (pc = "panic" \/ heating_stage = Working)

\* C4 witness: panic by preheat timeout, the refresh having read exactly
\* 3600, the first count at the ceiling.
C4_Witness ==
    /\ pc = "panic"
    /\ reason = "Preheating."
    /\ heating_stage = PreHeating
    /\ seconds = PREHEAT_LIMIT
    /\ time_val = ULong(PREHEAT_LIMIT)
    /\ ~heater_is_on

\* C5: for every filament, set_heater_state called in stage Idle with a
\* reading above the target switches the heater off, sets the stage to
\* Working and goes on to reset the timer to 0; PreHeating is entered only
\* from Idle with a reading not above the target, hence never in a session
\* that started above the target.
C5_IdleAboveTarget ==
    [][ /\ ( /\ pc = "set_heater"
             /\ pc' # pc
             /\ filament # NULL
             /\ heating_stage = Idle
             /\ temp > filaments[filament].temp )
           => ( /\ heating_stage' = Working
                /\ ~heater_is_on'
                /\ pc' = "sh_reset" )
        /\ (pc = "sh_reset" /\ pc' # pc)
           => (seconds' = 0 /\ pc' = "loop_549" /\ heating_stage' = heating_stage)
        /\ (heating_stage' = PreHeating /\ heating_stage # PreHeating)
           => ( /\ heating_stage = Idle
                /\ pc = "set_heater"
                /\ filament # NULL
                /\ temp <= filaments[filament].temp ) ]_vars

\* C5 witness: Working entered straight from Idle, the reset still ahead.
\* (A refresh due with seconds = 0 is left by the menu only; after
\* PreHeating a refresh is due only once the timer has counted.)
C5_Witness ==
    /\ pc = "sh_reset"
    /\ heating_stage = Working
    /\ ~heater_is_on
    /\ refresh_screen
    /\ seconds = 0

\* C6: in a session that has not reached Working, set_heater_state with a
\* reading not above the target leaves the stage PreHeating with the heater
\* on, and goes on to reset the timer only when the stage was Idle (the
\* first such reading); with a reading above the target it sets the stage
\* to Working, switches the heater off and goes on to reset the timer.  The
\* reset sets seconds to 0, and while the stage stays PreHeating no other
\* step lowers seconds.
C6_PreheatRun ==
    [][ /\ ( /\ pc = "set_heater"
             /\ pc' # pc
             /\ filament # NULL
             /\ heating_stage \in {Idle, PreHeating} )
           => IF temp <= filaments[filament].temp
              THEN /\ heating_stage' = PreHeating
                   /\ heater_is_on'
                   /\ pc' = IF heating_stage = Idle
                            THEN "sh_reset" ELSE "loop_549"
                   /\ seconds' = seconds
              ELSE /\ heating_stage' = Working
                   /\ ~heater_is_on'
                   /\ pc' = "sh_reset"
        /\ (pc = "sh_reset" /\ pc' # pc) => seconds' = 0
        /\ ( /\ heating_stage = PreHeating
             /\ heating_stage' = PreHeating
             /\ pc # "sh_reset" )
           => seconds' >= seconds ]_vars

\* C6 witness: a later reading of a preheating run is being handled: the
\* stage is PreHeating, the heater on, and the timer has kept counting.
C6_Witness ==
    /\ pc = "loop_549"
    /\ heating_stage = PreHeating
    /\ heater_is_on
    /\ filament # NULL
    /\ temp <= filaments[filament].temp
    /\ seconds > TearPoint(PREHEAT_LIMIT)

\* The completion announcement or the wait for Confirm that follows it.
InFinish == pc = "finish_beep" \/ caller = "finish"

\* C7: the completion test passed with the stage Working and seconds above
\* the drying time switches the heater off and starts the announcement;
\* the wait for an action starts after exactly three pulses; during the
\* announcement and the wait the heater stays off and the program is
\* nowhere but in the announcement, in wait_for_action or at the test of
\* its result; only a resolved Confirm ends the wait, any other result
\* waits again.
C7_Completion ==
    /\ [](InFinish =>
            /\ ~heater_is_on
            /\ heating_stage = Working
            /\ filament # NULL
            /\ pc = "finish_beep" \/ InWait \/ pc = "finish"
            /\ beeps \in 0 .. 3
            /\ (caller = "finish" <=> beeps = 3))
    /\ [][ /\ ( /\ \/ pc = "loop" /\ filament # NULL
                   \/ pc = "loop_523"
                /\ pc' # pc
                /\ heating_stage = Working
                /\ seconds > filaments[filament].time_sec )
              => ( /\ pc' = "finish_beep"
                   /\ ~heater_is_on'
                   /\ beeps' = 0 )
           /\ (pc = "finish_beep" /\ pc' # pc)
              => (beeps = 2 /\ beeps' = 3 /\ pc' = "wfa_wait")
           /\ (pc = "finish_beep" /\ beeps' # beeps) => beeps' = beeps + 1
           /\ (InFinish /\ ~InFinish')
              => (pc = "finish" /\ ret = ActionConfirm /\ pc' = "loop")
           /\ (pc = "finish" /\ pc' # pc /\ ret # ActionConfirm)
              => (pc' = "wfa_wait" /\ caller' = "finish"
                  /\ filament' = filament) ]_vars

\* C7 witness: a Next resolved during the wait is about to be ignored.
C7_Witness ==
    /\ pc = "finish"
    /\ ret = ActionNext
    /\ beeps = 3
    /\ ~heater_is_on
    /\ seconds > filaments[filament].time_sec

\* C8: once a completed session was confirmed the stage is Idle: at the
\* start of the next iteration, where no filament is chosen, and for as long
\* as the menu is shown.
C8_IdleDuringMenu ==
    /\ (pc = "loop" /\ filament = NULL) => heating_stage = Idle
    /\ caller = "menu" => heating_stage = Idle

\* C9: a rotation resolves to its initiating direction.  The first sample
\* Prev or Next becomes the action and starts the pairing wait; the pairing
\* wait ends exactly on the paired level or on the timeout; the release
\* wait ends exactly on NoAction; throughout both the action is kept and
\* nothing is returned; the return after the quiet period hands the action
\* to the caller with the event flag cleared; and NoAction is returned only
\* for a first sample of NoAction.
C9_RotationResolves ==
    /\ [](/\ rsite = "pair" => action \in {ActionPrev, ActionNext}
          /\ (rsite = "release" \/ pc = "wfa_quiet")
             => action \in {ActionPrev, ActionNext, ActionConfirm})
    /\ [][ /\ (pc = "first" /\ pc' # pc /\ level \in {ActionPrev, ActionNext})
              => ( /\ action' = level
                   /\ elapsed' = 0
                   /\ pc' = "read_action"
                   /\ rsite' = "pair" )
           /\ (pc = "pair" /\ pc' # pc)
              => ( rsite' = IF \/ action = ActionPrev /\ level = ActionNext
                               \/ action = ActionNext /\ level = ActionPrev
                               \/ elapsed' > ENCODER_TIMEOUT
                            THEN "release" ELSE "pair" )
           /\ (pc = "release" /\ pc' # pc)
              => (pc' = IF level = NoAction THEN "wfa_quiet" ELSE "read_action")
           /\ rsite \in {"pair", "release"}
              => (action' = action \/ pc = "wfa_quiet")
           /\ (pc = "wfa_quiet" /\ pc' # pc)
              => ( /\ ret' = action
                   /\ pc' = caller
                   /\ ~event_on_encoder' )
           /\ (pc' \in {"menu", "finish"} /\ pc' # pc)
              => \/ pc = "wfa_quiet"
                 \/ pc = "first" /\ level = NoAction /\ ret' = NoAction
         ]_vars

\* C9 witness: a rotation begun with Prev has been resolved and returned
\* to the menu as Prev, the event
\* flag cleared.
C9_Witness ==
    /\ pc = "menu"
    /\ ret = ActionPrev
    /\ ~event_on_encoder

\* The class of a sample that is zero or lies in a band.
BandOf(v) ==
    IF v = 0 THEN NoAction
    ELSE IF v \in 841 .. 849 THEN ActionPrev
    ELSE IF v \in 691 .. 704 THEN ActionNext
    ELSE IF v \in 561 .. 609 THEN ActionConfirm
    ELSE "none"

\* C10: read_action returns after one sample whatever the sample is, a
\* sample that is zero or outside the Prev, Next and Confirm bands counting
\* as NoAction.
C10_OneSample ==
    /\ samples <= 1
    /\ pc \in {"first", "pair", "release"}
       => level = IF BandOf(raw) = "none" THEN NoAction ELSE BandOf(raw)

\* C11: the menu cycles through the table.  While the menu is shown the
\* index lies in MIN_IDX..MAX_IDX and the chosen filament is the entry at
\* the index; a resolved Next at MAX_IDX gives 0 and otherwise adds 1, a
\* resolved Prev at MIN_IDX gives MAX_IDX and otherwise subtracts 1,
\* NoAction leaves the index as it is and the menu waits again; Confirm
\* leaves the menu with the filament still the entry at the index.
C11_MenuCycles ==
    /\ [](caller = "menu" =>
            /\ cur_idx \in MIN_IDX .. MAX_IDX
            /\ filament = cur_idx)
    /\ [][ (pc = "menu" /\ pc' # pc) =>
             /\ ret = ActionNext =>
                   cur_idx' = IF cur_idx = MAX_IDX THEN 0 ELSE cur_idx + 1
             /\ ret = ActionPrev =>
                   cur_idx' = IF cur_idx = MIN_IDX THEN MAX_IDX
                              ELSE cur_idx - 1
             /\ ret = NoAction => cur_idx' = cur_idx
             /\ ret # ActionConfirm =>
                   (filament' = cur_idx' /\ pc' = "wfa_wait"
                    /\ caller' = "menu")
             /\ ret = ActionConfirm =>
                   /\ filament' = cur_idx
                   /\ cur_idx' = cur_idx
                   /\ caller' # "menu" ]_vars

\* C11 witness: Confirm resolved in the menu with the last entry of the
\* table shown.
C11_Witness ==
    /\ pc = "menu"
    /\ ret = ActionConfirm
    /\ cur_idx = MAX_IDX
    /\ filament = MAX_IDX

\* C12: in every state, a stage other than Idle has a filament chosen.
C12_StageHasFilament ==
    heating_stage # Idle => filament # NULL

\* C13: the timer is reset in the instant the stage changes: every step
\* that changes the stage, to PreHeating, to Working or back to Idle,
\* leaves seconds at 0, however the timer interrupt falls between the steps
\* of the main loop.
C13_ResetAtChange ==
    [][heating_stage' # heating_stage => seconds' = 0]_vars

\* C14: the timer interrupt never runs between the main loop's read of a
\* variable the interrupt writes and the main loop's own write of it: once
\* loop() has found refresh_screen set, the handler does not run (seconds
\* does not change) before loop() has cleared it.
C14_NoTickInsideReadAndReset ==
    [][pc = "loop_550" => seconds' = seconds]_vars

\* C15: wait_for_action clears event_on_encoder only as its last step.
\* From the first sample to the end of the quiet period the flag stays set,
\* whatever edges arrive; the only step that clears it is the return after
\* the quiet period, which is reached only from a release wait that read
\* NoAction, and it returns Next, Prev or Confirm; every return of one of
\* these leaves the flag cleared.  The return of NoAction on the first
\* sample leaves the flag as it was, that is set, so the caller's next
\* call finds the flag set and goes on to sample without a new edge.
C15_ClearedLast ==
    /\ []( /\ pc \in {"read_action", "first", "pair", "release", "wfa_quiet"}
              => event_on_encoder
           /\ (pc \in {"menu", "finish"} /\ ret = NoAction)
              => event_on_encoder )
    /\ [][ /\ (event_on_encoder /\ ~event_on_encoder')
              => ( /\ pc = "wfa_quiet"
                   /\ pc' = caller
                   /\ ret' = action
                   /\ ret' \in {ActionNext, ActionPrev, ActionConfirm} )
           /\ (pc' = "wfa_quiet" /\ pc' # pc)
              => (pc = "release" /\ level = NoAction)
           /\ ( /\ pc' \in {"menu", "finish"}
                /\ pc' # pc
                /\ ret' \in {ActionNext, ActionPrev, ActionConfirm} )
              => (pc = "wfa_quiet" /\ ~event_on_encoder')
           /\ (pc = "first" /\ pc' \in {"menu", "finish"})
              => ( /\ ret' = NoAction
                   /\ event_on_encoder' )
           /\ ( /\ pc \in {"menu", "finish"}
                /\ ret = NoAction
                /\ pc' # pc )
              => (pc' = "wfa_wait" /\ event_on_encoder')
         ]_vars

\* C15 witness: the menu's call returned NoAction on its first sample and
\* the flag is still set.
C15_Witness ==
    /\ pc = "menu"
    /\ ret = NoAction
    /\ raw = 0
    /\ event_on_encoder

\* C16: the heater is off whenever the main loop waits for the encoder:
\* anywhere in wait_for_action or read_action and at the test of their
\* result, in the menu as well as in the wait for the completion Confirm,
\* and during the announcement before it.  The heater is on only inside a
\* session: a filament is chosen, the stage is PreHeating or Working, and
\* the main loop is in a control iteration, neither in panic nor past the
\* completion.
C16_OffWhileWaiting ==
    /\ (InWait \/ pc \in {"menu", "finish", "finish_beep"}) => ~heater_is_on
    /\ (caller \in {"menu", "finish"}) => ~heater_is_on
    /\ heater_is_on =>
          /\ filament # NULL
          /\ heating_stage \in {PreHeating, Working}
          /\ pc \in {"loop", "query", "set_heater", "sh_reset", "loop_549",
                     "loop_550", "update", "update_print"}

\* C16 witness: the menu after a completed session (the stage is still the
\* one the session ended in), waiting for an edge with the heater off.
C16_Witness ==
    /\ pc = "wfa_wait"
    /\ caller = "menu"
    /\ heating_stage = Working
    /\ ~event_on_encoder
    /\ ~heater_is_on

\* C17: the remaining time shown in stage Working never wraps: the value
\* update_screen has computed as time_sec - seconds lies in 0..time_sec
\* (its upper half is 0), that is, seconds was at most the drying time
\* when it was read, wherever the timer interrupt fell since the
\* completion test.
C17_EtaNoWrap ==
    (pc = "update_print" /\ heating_stage = Working) =>
        /\ time_val.hi = 0
        /\ time_val.lo <= filaments[filament].time_sec

\* C18: set_heater_state is never entered without a filament.  No filament
\* is chosen only at the start of a loop() iteration, from where the menu
\* is the only way on; in particular a filament is chosen wherever the
\* iteration is past the menu, at the call of set_heater_state too, and the
\* program is never in panic with reason "Heater state.".
C18_HeaterStateHasFilament ==
    /\ filament = NULL => pc = "loop"
    /\ pc = "set_heater" => filament \in MIN_IDX .. MAX_IDX
    /\ reason # "Heater state."

\* C18 witness: set_heater_state is about to run for the first time in a
\* session, with the last entry of the table chosen in the menu.
C18_Witness ==
    /\ pc = "set_heater"
    /\ heating_stage = Idle
    /\ filament = MAX_IDX
    /\ temp \in 2 .. 119

\* C19: in stage Working set_heater_state only switches the heater: on for
\* a reading not above the target, off for one above it; the stage stays
\* Working, seconds and the refresh flag are not touched and no reset
\* follows.  The stage leaves Working only for Idle at the start of the
\* next session, and while the stage is Working seconds is lowered only by
\* the reset that follows the entry into Working and by the reset after the
\* next menu.
C19_WorkingFrame ==
    [][ /\ ( /\ pc = "set_heater"
             /\ pc' # pc
             /\ filament # NULL
             /\ heating_stage = Working )
           => ( /\ heater_is_on' = (temp <= filaments[filament].temp)
                /\ heating_stage' = Working
                /\ seconds' = seconds
                /\ refresh_screen' = refresh_screen
                /\ pc' = "loop_549" )
        /\ (heating_stage = Working /\ heating_stage' # Working)
           => (pc = "loop_516" /\ heating_stage' = Idle)
        /\ (heating_stage = Working /\ seconds' < seconds)
           => \/ pc = "sh_reset"
              \/ pc = "menu" /\ ret = ActionConfirm ]_vars

\* C19 witness: in stage Working, with the countdown running, a reading
\* not above the target has switched the heater on again.
C19_Witness ==
    /\ pc = "loop_549"
    /\ heating_stage = Working
    /\ heater_is_on
    /\ temp <= filaments[filament].temp
    /\ seconds > TearPoint(filaments[filament].time_sec)

\* A control iteration of a session: loop() past the menu, not in the
\* completion.
InSession ==
    \/ pc = "loop" /\ filament # NULL
    \/ pc \in {"loop_523", "query", "set_heater", "sh_reset", "loop_549",
               "loop_550", "update", "update_print"}

====
